---- MODULE Spec2Model ----
(***************************************************************************)
(* Model of the analytics engine of src/app.py (WMS pick-event analysis):  *)
(* clean_unloading_point, parse_bin_coords, calculate_distance_score,      *)
(* calculate_net_time and process_data.                                    *)
(*                                                                         *)
(* Conventions.  A text value is a sequence of one-character strings.  A   *)
(* timestamp is a number of seconds counted from midnight of day 0 (naive  *)
(* datetimes, without a time zone).  A missing text cell (NaN / None) is   *)
(* the value NaN below, a missing timestamp the value NaT.                 *)
(***************************************************************************)
EXTENDS Integers, Sequences, FiniteSets, TLC

VARIABLES
    start_dt, end_dt, net_result,          \* one call of calculate_net_time
    up_val, cert_val, up_result,           \* one row through clean_unloading_point / classify
    curr_bin, prev_bin, bin_result,        \* one call of calculate_distance_score, both ways
    columns, rows, proc_result             \* one call of process_data

vars == << start_dt, end_dt, net_result, up_val, cert_val, up_result,
           curr_bin, prev_bin, bin_result, columns, rows, proc_result >>

netVars  == << start_dt, end_dt, net_result >>
upVars   == << up_val, cert_val, up_result >>
binVars  == << curr_bin, prev_bin, bin_result >>
procVars == << columns, rows, proc_result >>

----------------------------------------------------------------------------
(* Missing values and small helpers                                        *)

\* pandas' missing values; pd.isna is the test for them.  A missing text cell is
\* NaN (no text: its one element is not a character), a missing timestamp is NaT
\* (no time: every timestamp is >= 0).
NaN == << "NaN" >>
NaT == -1
isna(v) == v = NaN
notna(v) == v # NaN
isnat(t) == t = NaT

Max(a, b) == IF a >= b THEN a ELSE b
Min(a, b) == IF a <= b THEN a ELSE b
abs(a) == IF a < 0 THEN 0 - a ELSE a

----------------------------------------------------------------------------
(* calculate_net_time                                                      *)

\* The bounds of the timestamps drawn: days 0..MaxDay, on a grid of Granule seconds.
MaxDay == 1
Granule == 5 * 60
SecondsPerDay == 24 * 3600

BREAKS == << << 8, 15, 8, 30 >>,
             << 11, 0, 11, 30 >>,
             << 12, 45, 13, 0 >>,
             << 16, 15, 16, 30 >>,
             << 18, 30, 19, 0 >>,
             << 20, 30, 20, 45 >> >>

\* The gross duration above which no break is subtracted (12 hours).
GROSS_CAP == 43200

\* datetime.combine(day, time(h, m)) for the day-th calendar day
combine(day, h, m) == day * SecondsPerDay + h * 3600 + m * 60

\* start_dt.date(), as a day number
date(dt) == dt \div SecondsPerDay

\* The body of the loop over BREAKS, from the i-th break on, with the running break_sec.
RECURSIVE break_loop(_, _, _, _, _)
break_loop(start, end, day, i, break_sec) ==
    IF i > Len(BREAKS) THEN break_sec
    ELSE LET b    == BREAKS[i]
             b_s  == combine(day, b[1], b[2])
             b_e  == combine(day, b[3], b[4])
             ov_s == Max(start, b_s)
             ov_e == Min(end, b_e)
         IN break_loop(start, end, day, i + 1,
                       IF ov_s < ov_e THEN break_sec + (ov_e - ov_s) ELSE break_sec)

\* A variant without the guard on a negative duration and without the final clamp.
calculate_net_time_unguarded(start, end) ==
    IF isnat(start) \/ isnat(end) THEN 0
    ELSE LET total == end - start
         IN IF total > GROSS_CAP THEN total
            ELSE total - break_loop(start, end, date(start), 1, 0)

\* A variant that anchors the breaks to the date of end_dt.
calculate_net_time_endday(start, end) ==
    IF isnat(start) \/ isnat(end) THEN 0
    ELSE LET total == end - start
         IN IF total < 0 THEN 0
            ELSE IF total > GROSS_CAP THEN total
            ELSE Max(0, total - break_loop(start, end, date(end), 1, 0))

calculate_net_time(start, end) ==
    IF isnat(start) \/ isnat(end) THEN 0
    ELSE LET total == end - start
         IN IF total < 0 THEN 0
            ELSE IF total > GROSS_CAP THEN total
            ELSE Max(0, total - break_loop(start, end, date(start), 1, 0))

Timestamps == { d * SecondsPerDay + k * Granule :
                  d \in 0..MaxDay, k \in 0..((SecondsPerDay - 1) \div Granule) }

NoResult == [done |-> FALSE]

NetIdle == start_dt = NaT /\ end_dt = NaT /\ net_result = NoResult

NetInit ==
    /\ start_dt \in Timestamps \cup {NaT}
    /\ end_dt \in Timestamps \cup {NaT}
    /\ net_result = NoResult

CallNetTime ==
    /\ ~net_result.done
    /\ net_result' = [done |-> TRUE, value |-> calculate_net_time(start_dt, end_dt)]
    /\ UNCHANGED << start_dt, end_dt >>

BreakStart(day, k) == combine(day, BREAKS[k][1], BREAKS[k][2])
BreakEnd(day, k) == combine(day, BREAKS[k][3], BREAKS[k][4])
\* the length of the intersection of [s, e] with the k-th break of the given day
OverlapLen(s, e, day, k) ==
    IF s >= BreakEnd(day, k) \/ e <= BreakStart(day, k) THEN 0
    ELSE Min(e, BreakEnd(day, k)) - Max(s, BreakStart(day, k))
SumOverlaps(s, e, day) ==
    OverlapLen(s, e, day, 1) + OverlapLen(s, e, day, 2) + OverlapLen(s, e, day, 3)
    + OverlapLen(s, e, day, 4) + OverlapLen(s, e, day, 5) + OverlapLen(s, e, day, 6)
\* the breaks of the day of s end before the midnight that follows s
AfterLastBreak(s, e) == e >= (date(s) + 1) * SecondsPerDay
NetTimeInScope == net_result.done /\ ~isnat(start_dt) /\ ~isnat(end_dt) /\ start_dt <= end_dt

\* C1.  For present start <= end, the result is the gross duration when it exceeds
\* 12 hours, and otherwise the gross duration less the summed overlap of
\* [start, end] with the six breaks placed on the calendar day of start (never
\* below 0); 08:00 -> 08:45 gives 1800 s; a pair across midnight loses nothing to
\* the breaks of the following day.
C1_NetTime ==
    NetTimeInScope =>
        LET gross == end_dt - start_dt
            S == SumOverlaps(start_dt, end_dt, date(start_dt))
        IN /\ Len(BREAKS) = 6
           /\ gross > 43200 => net_result.value = gross
           /\ gross <= 43200 => net_result.value = Max(0, gross - S)
           /\ (start_dt = combine(0, 8, 0) /\ end_dt = combine(0, 8, 45))
                 => (gross = 2700 /\ S = 900 /\ net_result.value = 1800)
           /\ (gross <= 43200 /\ AfterLastBreak(start_dt, end_dt))
                 => net_result.value
                      = gross - SumOverlaps(start_dt, (date(start_dt) + 1) * SecondsPerDay,
                                            date(start_dt))
\* the scenario pair has been computed
C1_Witness ==
    net_result.done /\ start_dt = combine(0, 8, 0) /\ end_dt = combine(0, 8, 45)

\* C10.  The result is 0 when an endpoint is absent or end < start, and never negative.
C10_NetTimeMalformed ==
    net_result.done =>
        /\ net_result.value >= 0
        /\ (isnat(start_dt) \/ isnat(end_dt)) => net_result.value = 0
        /\ (~isnat(start_dt) /\ ~isnat(end_dt) /\ end_dt < start_dt) => net_result.value = 0
\* a call with end before start by more than 12 hours
C10_Witness ==
    /\ net_result.done /\ ~isnat(start_dt) /\ ~isnat(end_dt)
    /\ start_dt - end_dt > GROSS_CAP

----------------------------------------------------------------------------
(* Text: characters, comparison, digits                                    *)

\* body with x standing for the value of v, which is computed once: an assignment
\* x = v followed by body.
Bind(v, body(_)) == CHOOSE r \in { body(x) : x \in { v } } : TRUE

\* The code point of a character (Python compares strings by code point).
Ord(c) ==
    CASE c = " " -> 32 [] c = "+" -> 43 [] c = "-" -> 45 [] c = "." -> 46
      [] c = "0" -> 48 [] c = "1" -> 49 [] c = "2" -> 50 [] c = "3" -> 51
      [] c = "4" -> 52 [] c = "5" -> 53 [] c = "6" -> 54 [] c = "7" -> 55
      [] c = "8" -> 56 [] c = "9" -> 57 [] c = "E" -> 69 [] c = "M" -> 77
      [] c = "a" -> 97 [] c = "e" -> 101

DigitChars == << "0", "1", "2", "3", "4", "5", "6", "7", "8", "9" >>
IsDigitChar(c) == \E i \in 1..10 : DigitChars[i] = c
DigitVal(c) == Ord(c) - 48

\* str.isdigit(): not empty, and every character a digit
isdigit(s) == Len(s) > 0 /\ \A i \in 1..Len(s) : IsDigitChar(s[i])

\* s[i:j] of Python, for 0 <= i and j <= len(s)
Slice(s, i, j) == IF j <= i THEN << >> ELSE SubSeq(s, i + 1, j)

\* str.strip(), for the blank as the white space
strip(s) ==
    LET inked == { i \in 1..Len(s) : s[i] # " " }
    IN IF inked = {} THEN << >>
       ELSE SubSeq(s, CHOOSE i \in inked : \A j \in inked : i <= j,
                      CHOOSE i \in inked : \A j \in inked : i >= j)

\* str.replace(c, ''), for a single character c, from the i-th character on
RECURSIVE remove_from(_, _, _)
remove_from(s, c, i) ==
    IF i > Len(s) THEN << >>
    ELSE (IF s[i] = c THEN << >> ELSE << s[i] >>) \o remove_from(s, c, i + 1)

remove_char(s, c) == remove_from(s, c, 1)

endswith_dot0(s) == Len(s) >= 2 /\ s[Len(s) - 1] = "." /\ s[Len(s)] = "0"

contains(s, c) == \E i \in 1..Len(s) : s[i] = c

\* a[i:] <= b[i:] for Python strings: code-point order, a prefix first
RECURSIVE str_le_from(_, _, _)
str_le_from(a, b, i) ==
    IF i > Len(a) THEN TRUE
    ELSE IF i > Len(b) THEN FALSE
    ELSE IF a[i] = b[i] THEN str_le_from(a, b, i + 1)
    ELSE Ord(a[i]) < Ord(b[i])

str_le(a, b) == str_le_from(a, b, 1)

RECURSIVE Zeros(_)
Zeros(n) == IF n <= 0 THEN << >> ELSE << "0" >> \o Zeros(n - 1)

\* str.zfill(width) of a string of digits
zfill(s, width) == Zeros(width - Len(s)) \o s

\* int(s[:n]) of a string of digits
RECURSIVE int_upto(_, _)
int_upto(s, n) == IF n <= 0 THEN 0 ELSE 10 * int_upto(s, n - 1) + DigitVal(s[n])

int_of(s) == int_upto(s, Len(s))

\* str(n) of an integer n >= 0
RECURSIVE str_of(_)
str_of(n) == IF n < 10 THEN << DigitChars[n + 1] >> ELSE str_of(n \div 10) \o << DigitChars[(n % 10) + 1] >>

RECURSIVE Pow10(_)
Pow10(n) == IF n <= 0 THEN 1 ELSE 10 * Pow10(n - 1)

----------------------------------------------------------------------------
(* float(s) and "{:.0f}".format, on the values the model draws             *)

\* the number of digits of s from offset p on (s[p:] of Python)
RECURSIVE DigitRunAt(_, _)
DigitRunAt(s, p) == IF p < Len(s) /\ IsDigitChar(s[p + 1]) THEN 1 + DigitRunAt(s, p + 1) ELSE 0

DigitRun(s) == DigitRunAt(s, 0)

IsSign(c) == c = "+" \/ c = "-"
IsExpMark(c) == c = "E" \/ c = "e"
IsDot(c) == c = "."
\* the character at offset p, no character behind the end
CharAt(s, p) == IF p < Len(s) THEN s[p + 1] ELSE ""

\* float(s): [sign] digits [. digits] [(E|e) [sign] digits], a digit in the mantissa
\* required and, behind a marker, one in the exponent.  A parsed value is neg, mant
\* and scale, standing for (+/-) mant * 10^scale; the value is exact as a double for
\* the texts the model draws (under 16 digits, an exponent up to 18).  ok = FALSE is
\* Python's ValueError.  The offsets: p0 behind the sign, p1 behind the integer
\* digits, p2 behind the point, p3 behind the fraction digits, p4 behind the marker,
\* p5 behind the sign of the exponent.
parse_float(s) ==
    Bind(IF IsSign(CharAt(s, 0)) THEN 1 ELSE 0, LAMBDA p0 :
    Bind(p0 + DigitRunAt(s, p0), LAMBDA p1 :
    Bind(IF IsDot(CharAt(s, p1)) THEN p1 + 1 ELSE p1, LAMBDA p2 :
    Bind(p2 + DigitRunAt(s, p2), LAMBDA p3 :
    Bind(IF IsExpMark(CharAt(s, p3)) THEN p3 + 1 ELSE p3, LAMBDA p4 :
    Bind(IF IsSign(CharAt(s, p4)) THEN p4 + 1 ELSE p4, LAMBDA p5 :
        IF (p1 - p0) + (p3 - p2) = 0 THEN [ok |-> FALSE]
        ELSE IF p4 = p3
        THEN IF Len(s) = p3
             THEN [ok |-> TRUE, neg |-> s[1] = "-",
                   mant |-> int_of(Slice(s, p0, p1) \o Slice(s, p2, p3)),
                   scale |-> 0 - (p3 - p2)]
             ELSE [ok |-> FALSE]
        ELSE IF Len(s) > p5 /\ DigitRunAt(s, p5) = Len(s) - p5
        THEN [ok    |-> TRUE,
              neg   |-> s[1] = "-",
              mant  |-> int_of(Slice(s, p0, p1) \o Slice(s, p2, p3)),
              scale |-> (IF p5 > p4 /\ s[p5] = "-" THEN 0 - int_of(Slice(s, p5, Len(s)))
                         ELSE int_of(Slice(s, p5, Len(s)))) - (p3 - p2)]
        ELSE [ok |-> FALSE]))))))

\* str(int(x)): the value cut towards 0, in decimal digits, with its sign unless 0
str_int(x) ==
    Bind(IF x.scale >= 0 THEN x.mant * Pow10(x.scale) ELSE x.mant \div Pow10(0 - x.scale),
         LAMBDA n : IF x.neg /\ n > 0 THEN << "-" >> \o str_of(n) ELSE str_of(n))

\* "{:.0f}".format(x): the value rounded to an integer, ties to even, in decimal
\* digits with no exponent; a negative value keeps its sign, also when it rounds to 0.
format_0f(x) ==
    Bind(str_of(x.mant), LAMBDA digits :
    Bind(IF x.mant = 0 THEN << "0" >>
         ELSE IF x.scale >= 0 THEN digits \o Zeros(x.scale)
         ELSE IF 0 - x.scale > Len(digits) THEN << "0" >>
         ELSE Bind(Pow10(0 - x.scale), LAMBDA unit :
              Bind(x.mant \div unit, LAMBDA q :
              Bind(x.mant % unit, LAMBDA r :
                 str_of(IF 2 * r > unit \/ (2 * r = unit /\ q % 2 = 1) THEN q + 1 ELSE q)))),
         LAMBDA body : IF x.neg THEN << "-" >> \o body ELSE body))

----------------------------------------------------------------------------
(* clean_unloading_point and classify                                      *)

KLT_WIDTH == 20
KLT_START == << "0","0","4","9","6","0","0","0","0","0","4","6","0","6","0","0","0","0","0","0" >>
KLT_END   == << "0","0","4","9","6","0","0","0","0","0","4","6","0","6","0","0","0","5","0","0" >>

\* A variant that leaves scientific notation as it stands.
clean_unloading_point_nosci(val) ==
    IF isna(val) THEN << >>
    ELSE Bind(strip(val), LAMBDA s0 :
         Bind(IF endswith_dot0(s0) THEN Slice(s0, 0, Len(s0) - 2) ELSE s0, LAMBDA s1 :
            IF isdigit(s1) /\ Len(s1) < KLT_WIDTH THEN zfill(s1, KLT_WIDTH) ELSE s1))

\* the body of the try at line 63: the reformatted value, s itself on a ValueError
reformat_float(s) ==
    Bind(parse_float(s), LAMBDA x : IF x.ok THEN format_0f(x) ELSE s)

clean_unloading_point(val) ==
    IF isna(val) THEN << >>
    ELSE Bind(strip(val), LAMBDA s0 :
         Bind(IF endswith_dot0(s0) THEN Slice(s0, 0, Len(s0) - 2) ELSE s0, LAMBDA s1 :
         Bind(IF contains(s1, "E") \/ contains(s1, "e") THEN reformat_float(s1) ELSE s1,
              LAMBDA s2 :
            IF isdigit(s2) /\ Len(s2) < KLT_WIDTH THEN zfill(s2, KLT_WIDTH) ELSE s2)))

\* The three values of Typ_Picku ('Paleta', 'KLT (Vozik)', 'Ostatni' with their
\* pictograms, in the source).
Paleta == "Paleta"
KLT == "KLT"
Ostatni == "Ostatni"

\* A variant that looks at the unloading point before the certificate.
classify_range_first(cert, up) ==
    IF Len(up) = KLT_WIDTH /\ str_le(KLT_START, up) /\ str_le(up, KLT_END) THEN KLT
    ELSE IF notna(cert) THEN Paleta
    ELSE Ostatni

\* classify(row), of row.get('Certificate Number', None) and row['Clean_UP']
classify(cert, up) ==
    IF notna(cert) THEN Paleta
    ELSE IF Len(up) = KLT_WIDTH /\ str_le(KLT_START, up) /\ str_le(up, KLT_END) THEN KLT
    ELSE Ostatni

\* The unloading points drawn.  Plain values: leading zeros, one of two 15-digit
\* cores, a tail of MaxTail characters, and a ".0" or nothing after it.  Values in
\* scientific notation: one integer digit, up to MaxFrac fraction digits, an
\* exponent marker, a sign or none, and an exponent (or none, which float rejects).
MaxTail == 3
MaxFrac == 2

KLT_CORE   == << "4","9","6","0","0","0","0","0","4","6","0","6","0","0","0" >>
OTHER_CORE == << "4","9","6","0","0","0","0","0","0","0","0","0","0","0","0" >>

Seqs(S, n) == UNION { [1..k -> S] : k \in 0..n }

PlainValues ==
    { lead \o core \o tail \o suffix :
        lead \in { Zeros(k) : k \in 0..3 },
        core \in { KLT_CORE, OTHER_CORE },
        tail \in [1..MaxTail -> { "0", "1", "5", "a" }],
        suffix \in { << >>, << ".", "0" >> } }

SciValues ==
    { << d >> \o (IF frac = << >> THEN << >> ELSE << "." >> \o frac)
             \o << mark >> \o sign \o exp :
        d \in { "0", "4" },
        frac \in Seqs({ "5", "6", "9" }, MaxFrac),
        mark \in { "E", "e" },
        sign \in { << >>, << "+" >>, << "-" >> },
        exp \in { << >>, << "0" >>, << "1" >>, << "2" >>, << "1", "7" >>, << "1", "8" >> } }

\* a certificate number, as text
SOME_CERT == << "7" >>

\* the raw value of the scenario, "4.96E+17"
SCENARIO_UP == << "4", ".", "9", "6", "E", "+", "1", "7" >>

UpIdle == up_val = NaN /\ cert_val = NaN /\ up_result = NoResult

UpInit ==
    /\ up_val \in PlainValues \cup SciValues \cup { NaN, << " " >> \o SCENARIO_UP }
    /\ cert_val \in { NaN, SOME_CERT }
    /\ up_result = NoResult

\* One row through lines 121 and 130 of process_data: Clean_UP, then Typ_Picku.
ClassifyRow ==
    /\ ~up_result.done
    /\ \E up \in { clean_unloading_point(up_val) } :
          up_result' = [done |-> TRUE, Clean_UP |-> up, Typ_Picku |-> classify(cert_val, up)]
    /\ UNCHANGED << up_val, cert_val >>

\* a is before or equal to b in code-point order, stated by the first place they differ
LexLe(a, b) ==
    \/ (Len(a) <= Len(b) /\ \A i \in 1..Len(a) : a[i] = b[i])
    \/ \E i \in 1..Min(Len(a), Len(b)) :
          /\ \A j \in 1..(i - 1) : a[j] = b[j]
          /\ Ord(a[i]) < Ord(b[i])
InKltRange(up) == LexLe(KLT_START, up) /\ LexLe(up, KLT_END)
AllDigits(s) == \A i \in 1..Len(s) : s[i] \in { "0","1","2","3","4","5","6","7","8","9" }
Begins00496(s) == Len(s) >= 5 /\ SubSeq(s, 1, 5) = << "0", "0", "4", "9", "6" >>
ScenarioDone == up_result.done /\ up_val = SCENARIO_UP

\* C2 (as the spec states it).  "4.96E+17" normalizes to 20 digits beginning 00496,
\* the result lies inside [KLT_START, KLT_END], and without a certificate the event
\* is SmallLoadCarrier.
C2_Original ==
    ScenarioDone =>
        /\ Len(up_result.Clean_UP) = 20
        /\ AllDigits(up_result.Clean_UP)
        /\ Begins00496(up_result.Clean_UP)
        /\ InKltRange(up_result.Clean_UP)
        /\ isna(cert_val) => up_result.Typ_Picku = KLT

\* C2 (amended).  "4.96E+17" normalizes to the 20 digits 00496000000000000000, which
\* begin 00496 and lie below KLT_START, outside the range; without a certificate the
\* event is Other.
C2_Scenario ==
    ScenarioDone =>
        /\ Len(up_result.Clean_UP) = 20
        /\ AllDigits(up_result.Clean_UP)
        /\ Begins00496(up_result.Clean_UP)
        /\ up_result.Clean_UP = << "0", "0" >> \o OTHER_CORE \o << "0", "0", "0" >>
        /\ LexLe(up_result.Clean_UP, KLT_START) /\ up_result.Clean_UP # KLT_START
        /\ ~InKltRange(up_result.Clean_UP)
        /\ isna(cert_val) => up_result.Typ_Picku = Ostatni
\* the scenario value has been classified, with no certificate
C2_Witness == ScenarioDone /\ isna(cert_val)

\* C7.  First match wins: a present certificate gives Pallet whatever the unloading
\* point; otherwise SmallLoadCarrier exactly when the normalized identifier has
\* length 20 and lies in [KLT_START, KLT_END]; otherwise Other.  An identifier whose
\* length is not 20 is never SmallLoadCarrier.
C7_Classification ==
    up_result.done =>
        LET up == up_result.Clean_UP
            typ == up_result.Typ_Picku
        IN /\ typ \in { Paleta, KLT, Ostatni }
           /\ notna(cert_val) => typ = Paleta
           /\ isna(cert_val) => (typ = KLT <=> (Len(up) = 20 /\ InKltRange(up)))
           /\ isna(cert_val) => (typ = Ostatni <=> ~(Len(up) = 20 /\ InKltRange(up)))
           /\ Len(up) # 20 => typ # KLT
\* an event with a certificate and an unloading point inside the range
C7_Witness ==
    /\ up_result.done /\ notna(cert_val)
    /\ Len(up_result.Clean_UP) = 20 /\ InKltRange(up_result.Clean_UP)

----------------------------------------------------------------------------
(* parse_bin_coords and calculate_distance_score                           *)

ROW_CHANGE_PENALTY == 25

\* (None, None)
NoCoords == [ok |-> FALSE]

\* A variant without the bounds on row and bay.
parse_bin_coords_unbounded(bin_str) ==
    IF isna(bin_str) THEN NoCoords
    ELSE Bind(remove_char(remove_char(strip(bin_str), "-"), " "), LAMBDA s :
            IF Len(s) >= 4 /\ isdigit(s)
            THEN [ok |-> TRUE, row |-> int_of(Slice(s, 0, 2)), bay |-> int_of(Slice(s, 2, 4))]
            ELSE NoCoords)

parse_bin_coords(bin_str) ==
    IF isna(bin_str) THEN NoCoords
    ELSE Bind(remove_char(remove_char(strip(bin_str), "-"), " "), LAMBDA s :
            IF Len(s) >= 4 /\ isdigit(s)
            THEN Bind(int_of(Slice(s, 0, 2)), LAMBDA row :
                 Bind(int_of(Slice(s, 2, 4)), LAMBDA bay :
                    IF 10 <= row /\ row <= 99 /\ 0 <= bay /\ bay <= 99
                    THEN [ok |-> TRUE, row |-> row, bay |-> bay]
                    ELSE NoCoords))
            ELSE NoCoords)

\* A variant that keeps the sign of the bay difference.
calculate_distance_score_signed(curr, prev) ==
    Bind(parse_bin_coords(curr), LAMBDA c1 :
    Bind(parse_bin_coords(prev), LAMBDA c2 :
       IF ~c1.ok \/ ~c2.ok THEN -1
       ELSE (abs(c1.row - c2.row) * ROW_CHANGE_PENALTY) + (c1.bay - c2.bay)))

calculate_distance_score(curr, prev) ==
    Bind(parse_bin_coords(curr), LAMBDA c1 :
    Bind(parse_bin_coords(prev), LAMBDA c2 :
       IF ~c1.ok \/ ~c2.ok THEN -1
       ELSE (abs(c1.row - c2.row) * ROW_CHANGE_PENALTY) + abs(c1.bay - c2.bay)))

\* The location codes drawn: two segments of 1..MaxSegLen digits, then two segments
\* "01" or nothing, joined by a dash, a blank or nothing; and a missing cell.
MaxSegLen == 2

Segs == UNION { [1..k -> { "0", "1", "5" }] : k \in 1..MaxSegLen }

BinCodes ==
    { s1 \o d \o s2 \o (IF more THEN d \o << "0", "1" >> \o d \o << "0", "1" >> ELSE << >>) :
        s1 \in Segs, s2 \in Segs, d \in { << "-" >>, << " " >>, << >> }, more \in BOOLEAN }

BIN_13 == << "1", "3", "-", "0", "1", "-", "0", "1", "-", "0", "1" >>
BIN_15 == << "1", "5", "-", "0", "1", "-", "0", "1", "-", "0", "1" >>

PrevCodes ==
    { NaN, BIN_13, BIN_15,
      << "1", "3", "0", "1", "0", "1", "0", "1" >>,
      << "5", "5", "-", "3", "0", "-", "0", "1" >>,
      << "0", "5", "-", "0", "1", "-", "0", "1", "-", "0", "1" >>,
      << "1", "3", "-", "0", "a" >> }

BinIdle == curr_bin = NaN /\ prev_bin = NaN /\ bin_result = NoResult

BinInit ==
    /\ curr_bin \in BinCodes \cup { NaN, BIN_13 }
    /\ prev_bin \in PrevCodes
    /\ bin_result = NoResult

\* The decoding of both codes, and the score both ways round and of curr_bin with itself.
ScoreBins ==
    /\ ~bin_result.done
    /\ bin_result' = [done      |-> TRUE,
                      coords    |-> parse_bin_coords(curr_bin),
                      prev      |-> parse_bin_coords(prev_bin),
                      score     |-> calculate_distance_score(curr_bin, prev_bin),
                      score_rev |-> calculate_distance_score(prev_bin, curr_bin),
                      score_own |-> calculate_distance_score(curr_bin, curr_bin)]
    /\ UNCHANGED << curr_bin, prev_bin >>

\* The segments of a code: the runs between dashes and blanks.
IsDelim(c) == c = "-" \/ c = " "
Delimited(s) == notna(s) /\ \E i \in 1..Len(s) : IsDelim(s[i])
FirstDelim(s) == IF \E i \in 1..Len(s) : IsDelim(s[i])
                 THEN CHOOSE i \in 1..Len(s) : IsDelim(s[i]) /\ \A j \in 1..(i - 1) : ~IsDelim(s[j])
                 ELSE Len(s) + 1
Seg1(s) == SubSeq(s, 1, FirstDelim(s) - 1)
AfterSeg1(s) == SubSeq(s, FirstDelim(s) + 1, Len(s))
Seg2(s) == Seg1(AfterSeg1(s))
OnlyDigitsAndDelims(s) == \A i \in 1..Len(s) : IsDelim(s[i]) \/ IsDigitChar(s[i])
\* the value of a string of digits, digit by digit
DecimalValue(s) ==
    LET v[i \in 0..Len(s)] == IF i = 0 THEN 0 ELSE 10 * v[i - 1] + DigitVal(s[i])
    IN v[Len(s)]
TwoSegments(s) == Delimited(s) /\ isdigit(Seg1(s)) /\ isdigit(Seg2(s))

\* C3 (as the spec states it).  A delimited code whose first two segments are
\* integers decodes to row = first segment, bay = second segment, with no bounds
\* applied.
C3_Original ==
    (bin_result.done /\ TwoSegments(curr_bin)) =>
        /\ bin_result.coords.ok
        /\ bin_result.coords.row = DecimalValue(Seg1(curr_bin))
        /\ bin_result.coords.bay = DecimalValue(Seg2(curr_bin))

\* C3 (amended).  A code of delimited digit segments whose first two segments have
\* two digits each decodes to row = first segment, bay = second segment when the
\* first segment is at least 10, and to unknown when it is below 10; whatever the
\* form of the code, a decoded pair satisfies 10 <= row <= 99 and 0 <= bay <= 99.
C3_DelimitedDecoding ==
    bin_result.done =>
        /\ bin_result.coords.ok =>
              /\ 10 <= bin_result.coords.row /\ bin_result.coords.row <= 99
              /\ 0 <= bin_result.coords.bay /\ bin_result.coords.bay <= 99
        /\ ( /\ TwoSegments(curr_bin) /\ OnlyDigitsAndDelims(curr_bin)
             /\ Len(Seg1(curr_bin)) = 2 /\ Len(Seg2(curr_bin)) = 2 ) =>
              IF DecimalValue(Seg1(curr_bin)) >= 10
              THEN /\ bin_result.coords.ok
                   /\ bin_result.coords.row = DecimalValue(Seg1(curr_bin))
                   /\ bin_result.coords.bay = DecimalValue(Seg2(curr_bin))
              ELSE ~bin_result.coords.ok
\* a delimited code with a two-digit first segment below 10 has been decoded
C3_Witness ==
    /\ bin_result.done /\ TwoSegments(curr_bin)
    /\ Len(Seg1(curr_bin)) = 2 /\ Len(Seg2(curr_bin)) = 2
    /\ DecimalValue(Seg1(curr_bin)) < 10

Distance(a, b) == IF a >= b THEN a - b ELSE b - a

\* C8.  The score is -1 when either code fails to decode, and otherwise
\* |row difference| * 25 + |bay difference|; it is the same both ways round, 0 for
\* a decodable code with itself, and 50 for "13-01-01-01" against "15-01-01-01".
C8_DistanceScore ==
    bin_result.done =>
        LET c == bin_result.coords
            q == bin_result.prev
        IN /\ (~c.ok \/ ~q.ok) => bin_result.score = -1
           /\ (c.ok /\ q.ok) =>
                 bin_result.score = Distance(c.row, q.row) * 25 + Distance(c.bay, q.bay)
           /\ bin_result.score = bin_result.score_rev
           /\ c.ok => bin_result.score_own = 0
           /\ (curr_bin = BIN_13 /\ prev_bin = BIN_15) => bin_result.score = 50
\* the scenario pair has been scored
C8_Witness == bin_result.done /\ curr_bin = BIN_13 /\ prev_bin = BIN_15

----------------------------------------------------------------------------
(* clean_delivery_id                                                       *)

\* the body of the try at line 51: str(int(float(s))), s itself when float raises
truncate_float(s) ==
    Bind(parse_float(s), LAMBDA x : IF x.ok THEN str_int(x) ELSE s)

clean_delivery_id(val) ==
    IF isna(val) THEN << >>
    ELSE Bind(strip(val), LAMBDA s :
            IF contains(s, ".") THEN truncate_float(s) ELSE s)

----------------------------------------------------------------------------
(* process_data                                                            *)

COL_DATE    == "Confirmation date"
COL_TIME    == "Confirmation time"
COL_DATE_1  == "Confirmation date.1"
COL_TIME_1  == "Confirmation time.1"
COL_USER    == "User"
COL_BIN     == "Source Storage Bin"
COL_UP      == "Unloading Point"
COL_DELIV   == "Delivery"
COL_CERT    == "Certificate Number"
COL_TO      == "Transfer Order Number"
COL_MAT     == "Material"

\* the cell of a column: missing when the file has no such column
Cell(cols, col, value) == IF col \in cols THEN value ELSE NaN

\* Lines 110-112: the unsuffixed confirmation columns stand in for the ".1" ones.
\* The result is the set of columns after the assignment, or the KeyError.
fallback_columns(cols) ==
    IF COL_DATE_1 \notin cols /\ COL_DATE \in cols
    THEN IF COL_TIME \in cols
         THEN [ok |-> TRUE, cols |-> cols \cup { COL_DATE_1, COL_TIME_1 }]
         ELSE [ok |-> FALSE]
    ELSE [ok |-> TRUE, cols |-> cols]

\* The columns process_data indexes without a test (lines 115, 121, 132, 134,
\* 149): a KeyError leaves the function when one is absent.
missing_column(cols) ==
    \/ COL_DATE_1 \notin cols \/ COL_TIME_1 \notin cols
    \/ COL_UP \notin cols
    \/ COL_USER \notin cols
    \/ COL_BIN \notin cols
    \/ (COL_DELIV \in cols /\ COL_MAT \notin cols)

\* Lines 114-130, one row: Clean_UP, the cleaned Delivery and Typ_Picku.  index is
\* the row's label in the frame, which pandas keeps through the sort.
clean_row(cols, r, i) ==
    Bind(clean_unloading_point(Cell(cols, COL_UP, r.UP)), LAMBDA up :
       [index         |-> i,
        User          |-> r.User,
        PickTimestamp |-> r.PickTimestamp,
        Bin           |-> r.Bin,
        Delivery      |-> IF COL_DELIV \in cols THEN clean_delivery_id(r.Delivery) ELSE NaN,
        TO            |-> Cell(cols, COL_TO, r.TO),
        Material      |-> Cell(cols, COL_MAT, r.Material),
        Clean_UP      |-> up,
        Typ_Picku     |-> classify(Cell(cols, COL_CERT, r.Cert), up)])

\* Line 118 onward: the rows with a timestamp, cleaned, in file order.
RECURSIVE clean_rows(_, _, _)
clean_rows(cols, rs, i) ==
    IF i > Len(rs) THEN << >>
    ELSE (IF isnat(rs[i].PickTimestamp) THEN << >> ELSE << clean_row(cols, rs[i], i) >>)
         \o clean_rows(cols, rs, i + 1)

\* the order of sort_values(by=['User', 'PickTimestamp']): a missing User is last
user_lt(a, b) == IF isna(a) THEN FALSE ELSE IF isna(b) THEN TRUE ELSE a # b /\ str_le(a, b)
row_lt(a, b) ==
    \/ user_lt(a.User, b.User)
    \/ (a.User = b.User /\ a.PickTimestamp < b.PickTimestamp)

\* The place of row i in the sorted frame: behind the rows that are before it in
\* the order and, the sort being stable, behind the equal rows above it.
sort_position(df, i) ==
    1 + Cardinality({ j \in 1..Len(df) :
                        \/ row_lt(df[j], df[i])
                        \/ (~row_lt(df[i], df[j]) /\ j < i) })

RECURSIVE sort_positions(_, _)
sort_positions(df, i) ==
    IF i > Len(df) THEN << >> ELSE << sort_position(df, i) >> \o sort_positions(df, i + 1)

\* the rows in the order of their places, from place p on
RECURSIVE sorted_from(_, _, _)
sorted_from(df, place, p) ==
    IF p > Len(df) THEN << >>
    ELSE << df[CHOOSE i \in 1..Len(df) : place[i] = p] >> \o sorted_from(df, place, p + 1)

\* Line 132: df.sort_values(by=['User', 'PickTimestamp'])
sort_values(df) == Bind(sort_positions(df, 1), LAMBDA place : sorted_from(df, place, 1))

\* A variant that shifts the whole frame, not each User's rows.
shift_plain(df, k) == k - 1

\* groupby('User').shift(1): the position of the row before row k among the rows
\* of the same User, 0 when there is none; a row without a User is in no group.
shift_by_user(df, k) ==
    IF isna(df[k].User) THEN 0
    ELSE LET before == { j \in 1..(k - 1) : df[j].User = df[k].User }
         IN IF before = {} THEN 0 ELSE CHOOSE j \in before : \A i \in before : i <= j

\* Lines 133-142 for row k of the sorted frame, j the row shifted onto it.
\* Prodleva_min is Net_Seconds / 60.
sequence_row(df, k, j) ==
    [index          |-> df[k].index,
     User           |-> df[k].User,
     PickTimestamp  |-> df[k].PickTimestamp,
     Bin            |-> df[k].Bin,
     Delivery       |-> df[k].Delivery,
     TO             |-> df[k].TO,
     Material       |-> df[k].Material,
     Clean_UP       |-> df[k].Clean_UP,
     Typ_Picku      |-> df[k].Typ_Picku,
     PrevTimestamp  |-> IF j = 0 THEN NaT ELSE df[j].PickTimestamp,
     PrevBin        |-> IF j = 0 THEN NaN ELSE df[j].Bin,
     Net_Seconds    |-> calculate_net_time(IF j = 0 THEN NaT ELSE df[j].PickTimestamp,
                                           df[k].PickTimestamp),
     Distance_Score |-> calculate_distance_score(df[k].Bin, IF j = 0 THEN NaN ELSE df[j].Bin),
     Coords         |-> parse_bin_coords(df[k].Bin)]

RECURSIVE sequence_rows(_, _)
sequence_rows(df, k) ==
    IF k > Len(df) THEN << >>
    ELSE << sequence_row(df, k, shift_by_user(df, k)) >> \o sequence_rows(df, k + 1)

\* agg 'first': the User of the first row of the group that has one
first_user(df, key) ==
    LET having == { k \in 1..Len(df) : df[k].Delivery = key /\ notna(df[k].User) }
    IN IF having = {} THEN NaN
       ELSE df[CHOOSE k \in having : \A i \in having : k <= i].User

\* Pocet_Polozek=('Material', 'count'): the rows of the group whose Material is
\* not missing
count_items(df, key) ==
    Cardinality({ k \in 1..Len(df) : df[k].Delivery = key /\ notna(df[k].Material) })

\* Lines 146-152 for one Delivery.  Trvani_min is Trvani_sec / 60.
delivery_group(df, key) ==
    LET times == { df[k].PickTimestamp : k \in { i \in 1..Len(df) : df[i].Delivery = key } }
        start == CHOOSE t \in times : \A u \in times : t <= u
        end   == CHOOSE t \in times : \A u \in times : t >= u
    IN [Delivery      |-> key,
        Start         |-> start,
        End           |-> end,
        Pocet_Polozek |-> count_items(df, key),
        User          |-> first_user(df, key),
        Trvani_sec    |-> end - start]

\* the groups of the keys from the p-th on, in the order of the keys, those with a
\* negative duration left out (line 153)
RECURSIVE groups_from(_, _, _)
groups_from(df, keys, p) ==
    IF p > Cardinality(keys) THEN << >>
    ELSE LET key == CHOOSE x \in keys : Cardinality({ y \in keys : str_le(y, x) }) = p
             g   == delivery_group(df, key)
         IN (IF g.Trvani_sec >= 0 THEN << g >> ELSE << >>) \o groups_from(df, keys, p + 1)

\* A variant that groups by the transfer order when there is no Delivery column.
del_stats_or_to(cols, df) ==
    IF COL_DELIV \in cols
    THEN groups_from(df, { df[k].Delivery : k \in 1..Len(df) }, 1)
    ELSE LET keys == { df[k].TO : k \in 1..Len(df) }
         IN [p \in 1..Cardinality(keys) |->
               [Delivery |-> CHOOSE x \in keys : Cardinality({ y \in keys : str_le(y, x) }) = p]]

\* Lines 145-155: the table of the deliveries, empty without a Delivery column.
build_del_stats(cols, df) ==
    IF COL_DELIV \in cols
    THEN groups_from(df, { df[k].Delivery : k \in 1..Len(df) }, 1)
    ELSE << >>

\* The exception that leaves process_data, "" when it returns.  On a frame that
\* dropna left empty, df.apply(classify, axis=1) at line 130 returns a frame, and
\* whether its assignment to a column raises depends on the pandas version:
\* empty_raises.
process_error(cols, rs, empty_raises) ==
    LET fb == fallback_columns(cols)
    IN IF ~fb.ok THEN "KeyError"
       ELSE IF COL_DATE_1 \notin fb.cols \/ COL_TIME_1 \notin fb.cols \/ COL_UP \notin fb.cols
            THEN "KeyError"
       ELSE IF empty_raises /\ \A i \in 1..Len(rs) : isnat(rs[i].PickTimestamp)
            THEN "ValueError"
       ELSE IF missing_column(fb.cols) THEN "KeyError"
       ELSE ""

\* The files drawn: up to MaxRows rows.  PickTimestamp stands for what
\* pd.to_datetime makes of the row's confirmation date and time, NaT when they do
\* not parse.  Rows of the first kind vary in User and timestamp, rows of the
\* second kind in Delivery, timestamp and Material; the other cells follow from
\* the row's position.
MaxRows == 3

USER_1 == << "1" >>
USER_2 == << "2" >>
MATERIAL == << "M" >>
T0 == combine(0, 8, 0)
EventTimes == { T0, T0 + 10 * 60, T0 + 25 * 60 }

Cycle(seq, i) == seq[((i - 1) % Len(seq)) + 1]
BinAt(i) == Cycle(<< BIN_15, BIN_13, << "5", "5", "-", "3", "0", "-", "0", "1" >>,
                     << "0", "5", "-", "0", "1" >> >>, i)
UpAt(i) == Cycle(<< << "0", "0" >> \o KLT_CORE \o << "1", "0", "0" >>, SCENARIO_UP, NaN >>, i)
CertAt(i) == Cycle(<< NaN, SOME_CERT >>, i)
ToAt(i) == Cycle(<< << "1" >>, << "2" >> >>, i)
DeliveryAt(i) == Cycle(<< << "5", ".", "0" >>, << "5" >>, << " ", "5" >>, NaN >>, i)
UserAt(i) == Cycle(<< USER_1, USER_1, USER_1, NaN >>, i)

Row(i, user, ts, delivery, material) ==
    [User |-> user, PickTimestamp |-> ts, Bin |-> BinAt(i), Delivery |-> delivery,
     TO |-> ToAt(i), Material |-> material, Cert |-> CertAt(i), UP |-> UpAt(i)]

RECURSIVE RowsByUser(_)
RowsByUser(n) ==
    IF n = 0 THEN { << >> }
    ELSE { Append(rs, Row(n, user, ts, DeliveryAt(n), MATERIAL)) :
             rs \in RowsByUser(n - 1),
             user \in { USER_1, USER_2, NaN },
             ts \in { T0, T0 + 10 * 60, NaT } }

RECURSIVE RowsByDelivery(_, _)
RowsByDelivery(n, first_material) ==
    IF n = 0 THEN { << >> }
    ELSE { Append(rs, Row(n, UserAt(n), ts, delivery,
                          IF n = 1 THEN first_material ELSE MATERIAL)) :
             rs \in RowsByDelivery(n - 1, first_material),
             delivery \in { << "5" >>, << "7" >> },
             ts \in EventTimes }

ALL_COLUMNS == { COL_DATE, COL_TIME, COL_DATE_1, COL_TIME_1, COL_USER, COL_BIN, COL_UP,
                 COL_DELIV, COL_CERT, COL_TO, COL_MAT }

\* The column sets drawn: every column; the unsuffixed confirmation columns only and
\* no certificate; no confirmation column; no unloading point; no delivery.
Schemas ==
    { ALL_COLUMNS,
      ALL_COLUMNS \ { COL_DATE_1, COL_TIME_1, COL_CERT },
      ALL_COLUMNS \ { COL_DATE, COL_TIME, COL_DATE_1, COL_TIME_1 },
      ALL_COLUMNS \ { COL_UP },
      ALL_COLUMNS \ { COL_DELIV } }

ProcIdle == columns = {} /\ rows = << >> /\ proc_result = NoResult

ProcInit ==
    /\ rows \in UNION { RowsByUser(n) \cup RowsByDelivery(n, MATERIAL) \cup RowsByDelivery(n, NaN) :
                          n \in 0..MaxRows }
    /\ columns \in Schemas
    /\ proc_result = NoResult

\* process_data returns its two frames: the steps of lines 110-160 in turn, each
\* frame computed once.
ProcessReturns ==
    /\ ~proc_result.done
    /\ \E empty_raises \in BOOLEAN : process_error(columns, rows, empty_raises) = ""
    /\ \E cols \in { fallback_columns(columns).cols } :
       \E cleaned \in { clean_rows(cols, rows, 1) } :
       \E sorted \in { sort_values(cleaned) } :
       \E df \in { sequence_rows(sorted, 1) } :
          proc_result' = [done |-> TRUE, ok |-> TRUE, df |-> df,
                          del_stats |-> build_del_stats(cols, df)]
    /\ UNCHANGED << columns, rows >>

\* An exception leaves process_data.
ProcessRaises ==
    /\ ~proc_result.done
    /\ \E empty_raises \in BOOLEAN :
          /\ process_error(columns, rows, empty_raises) # ""
          /\ proc_result' = [done |-> TRUE, ok |-> FALSE,
                             error |-> process_error(columns, rows, empty_raises)]
    /\ UNCHANGED << columns, rows >>

----------------------------------------------------------------------------
(* The specifications                                                      *)

InitNet == NetInit /\ UpIdle /\ BinIdle /\ ProcIdle
NextNet == CallNetTime /\ UNCHANGED << upVars, binVars, procVars >>
SpecNet == InitNet /\ [][NextNet]_vars

InitUP == UpInit /\ NetIdle /\ BinIdle /\ ProcIdle
NextUP == ClassifyRow /\ UNCHANGED << netVars, binVars, procVars >>
SpecUP == InitUP /\ [][NextUP]_vars

InitBin == BinInit /\ NetIdle /\ UpIdle /\ ProcIdle
NextBin == ScoreBins /\ UNCHANGED << netVars, upVars, procVars >>
SpecBin == InitBin /\ [][NextBin]_vars

InitProc == ProcInit /\ NetIdle /\ UpIdle /\ BinIdle
NextProc ==
    \/ ProcessReturns /\ UNCHANGED << netVars, upVars, binVars >>
    \/ ProcessRaises /\ UNCHANGED << netVars, upVars, binVars >>
SpecProc == InitProc /\ [][NextProc]_vars

----------------------------------------------------------------------------
(* Claims about process_data                                               *)

Returned == proc_result.done /\ proc_result.ok
Emitted == 1..Len(proc_result.df)
HasConfirmationColumns ==
    \/ (COL_DATE_1 \in columns /\ COL_TIME_1 \in columns)
    \/ (COL_DATE \in columns /\ COL_TIME \in columns)
\* the keys of the aggregate table
StatKeys == { proc_result.del_stats[g].Delivery : g \in 1..Len(proc_result.del_stats) }

\* C4 (as the spec states it).  Without a 'Delivery' column but with 'Transfer Order
\* Number', the aggregate table has one entry per distinct transfer-order id of the
\* events.
C4_Original ==
    (Returned /\ COL_DELIV \notin columns /\ COL_TO \in columns) =>
        /\ StatKeys = { proc_result.df[k].TO : k \in Emitted }
        /\ Len(proc_result.del_stats) = Cardinality(StatKeys)

\* C4 (amended).  With a 'Delivery' column the aggregate table has one entry per
\* distinct cleaned delivery id of the events; without one it is empty, also when
\* the file has 'Transfer Order Number'.
C4_GroupKey ==
    Returned =>
        /\ COL_DELIV \in columns =>
              /\ StatKeys = { proc_result.df[k].Delivery : k \in Emitted }
              /\ Len(proc_result.del_stats) = Cardinality(StatKeys)
        /\ COL_DELIV \notin columns => proc_result.del_stats = << >>
\* a file without 'Delivery' and with 'Transfer Order Number' gave two events of
\* different transfer orders
C4_Witness ==
    /\ Returned /\ COL_DELIV \notin columns /\ COL_TO \in columns
    /\ \E j, k \in Emitted : proc_result.df[j].TO # proc_result.df[k].TO

\* C5.  A file that has the timestamp, actor and location columns and lacks the
\* unloading-point column is processed without an error: every row with a
\* parseable timestamp is emitted, and every event without a certificate number is
\* Other.
C5_OptionalUnloadingPoint ==
    ( /\ proc_result.done /\ HasConfirmationColumns
      /\ COL_USER \in columns /\ COL_BIN \in columns /\ COL_UP \notin columns ) =>
        /\ proc_result.ok
        /\ { proc_result.df[k].index : k \in Emitted }
             = { i \in 1..Len(rows) : ~isnat(rows[i].PickTimestamp) }
        /\ \A k \in Emitted :
              (COL_CERT \notin columns \/ isna(rows[proc_result.df[k].index].Cert))
                 => proc_result.df[k].Typ_Picku = Ostatni

SameUserBefore(k) ==
    { j \in 1..(k - 1) : proc_result.df[j].User = proc_result.df[k].User }

\* C6.  The events of each User are in ascending order of timestamp.  The first
\* event of a User has no previous event, net duration 0 and distance -1; every
\* other event has the timestamp and the bin of the event of the same User just
\* before it, a previous timestamp no later than its own, and the net duration and
\* the distance of that pair.  Every emitted event is a row of the file.
C6_Sequencing ==
    Returned =>
        LET df == proc_result.df
        IN /\ \A k \in Emitted :
                 /\ df[k].index \in 1..Len(rows)
                 /\ df[k].User = rows[df[k].index].User
                 /\ df[k].PickTimestamp = rows[df[k].index].PickTimestamp
                 /\ df[k].Bin = rows[df[k].index].Bin
           /\ \A j, k \in Emitted : j # k => df[j].index # df[k].index
           /\ \A j, k \in Emitted :
                 (j < k /\ notna(df[k].User) /\ df[j].User = df[k].User)
                    => df[j].PickTimestamp <= df[k].PickTimestamp
           /\ \A k \in Emitted :
                 notna(df[k].User) =>
                    IF SameUserBefore(k) = {}
                    THEN /\ isnat(df[k].PrevTimestamp) /\ isna(df[k].PrevBin)
                         /\ df[k].Net_Seconds = 0 /\ df[k].Distance_Score = -1
                    ELSE \E j \in SameUserBefore(k) :
                            /\ \A i \in SameUserBefore(k) : i <= j
                            /\ df[k].PrevTimestamp = df[j].PickTimestamp
                            /\ df[k].PrevBin = df[j].Bin
                            /\ df[k].PrevTimestamp <= df[k].PickTimestamp
                            /\ \A i \in Emitted :
                                  df[i].User = df[k].User =>
                                     ~( df[j].PickTimestamp < df[i].PickTimestamp
                                        /\ df[i].PickTimestamp < df[k].PickTimestamp )
                            /\ df[k].Net_Seconds
                                 = calculate_net_time(df[j].PickTimestamp, df[k].PickTimestamp)
                            /\ df[k].Distance_Score
                                 = calculate_distance_score(df[k].Bin, df[j].Bin)
\* the first event of a User stands right behind an event of another User, and some
\* event has a previous event
C6_Witness ==
    /\ Returned
    /\ \E k \in Emitted :
          /\ k > 1 /\ notna(proc_result.df[k].User) /\ SameUserBefore(k) = {}
          /\ notna(proc_result.df[k - 1].User)
    /\ \E k \in Emitted : notna(proc_result.df[k].User) /\ SameUserBefore(k) # {}

Members(key) == { k \in Emitted : proc_result.df[k].Delivery = key }
MemberTimes(key) == { proc_result.df[k].PickTimestamp : k \in Members(key) }
GroupWindow(g) ==
    /\ Members(g.Delivery) # {}
    /\ g.Start \in MemberTimes(g.Delivery) /\ \A t \in MemberTimes(g.Delivery) : g.Start <= t
    /\ g.End \in MemberTimes(g.Delivery) /\ \A t \in MemberTimes(g.Delivery) : t <= g.End
    /\ g.Trvani_sec = g.End - g.Start
    /\ g.Trvani_sec >= 0
ScenarioGroup(g) ==
    Cardinality(Members(g.Delivery)) = 3 /\ MemberTimes(g.Delivery) = EventTimes

\* C9.  For every group of the aggregate table: Start is the earliest and End the
\* latest timestamp of the events of the group, the item count is the number of
\* events of the group, the span is End - Start and not negative; three events at
\* T, T + 10 min and T + 25 min give a span of 25 minutes and a count of 3.
C9_Aggregates ==
    (Returned /\ COL_DELIV \in columns) =>
        \A i \in 1..Len(proc_result.del_stats) :
            LET g == proc_result.del_stats[i]
            IN /\ GroupWindow(g)
               /\ g.Pocet_Polozek = Cardinality(Members(g.Delivery))
               /\ ScenarioGroup(g) => (g.Trvani_sec = 25 * 60 /\ g.Pocet_Polozek = 3)

\* The part of C9 the code satisfies: the window and the span of every group, and
\* a count that is the number of the group's events with a Material.
C9_WindowAndMaterialCount ==
    (Returned /\ COL_DELIV \in columns) =>
        \A i \in 1..Len(proc_result.del_stats) :
            LET g == proc_result.del_stats[i]
            IN /\ GroupWindow(g)
               /\ g.Pocet_Polozek
                    = Cardinality({ k \in Members(g.Delivery) : notna(proc_result.df[k].Material) })
               /\ ScenarioGroup(g) => g.Trvani_sec = 25 * 60
\* the scenario group has been aggregated
C9_WitnessScenario ==
    /\ Returned /\ COL_DELIV \in columns
    /\ \E i \in 1..Len(proc_result.del_stats) :
          ScenarioGroup(proc_result.del_stats[i]) /\ proc_result.del_stats[i].Pocet_Polozek = 3

====
